---- MODULE Spec2Model ----
(***************************************************************************)
(* Model of courses/migrations/0002_step.py: the migration that creates    *)
(* the Step table with a protecting foreign key to Course.                 *)
(*                                                                         *)
(* The migration is a declaration.  Its declared values (dependencies,     *)
(* the CreateModel operation and its five fields) are the definitions of   *)
(* the first section.  The actions are the operations the declaration is   *)
(* interpreted by: the migration runner applying and reversing it, and     *)
(* the row operations of the resulting tables.  Every action reads the     *)
(* declaration; none hard-codes what the declaration says.                 *)
(***************************************************************************)
EXTENDS Integers, Sequences, FiniteSets, TLC

\* ------------------------------------------------------------- bounds
\* Course primary keys are drawn from 1..MaxCourses.
MaxCourses == 2
\* At most MaxSteps Step rows are inserted between two creations of the table.
MaxSteps == 2

\* ------------------------------------------------------------- values
\* A column value is NULL (None) or a value (Some(v)).
None == << >>
Some(v) == << v >>
IsNull(x) == x = None

\* ------------------------------------------------------- the declaration
\* Variant: the dependency on 0001_initial is not declared.
dependencies_none == {}

\* Migration.dependencies: the migrations of app 'courses' that must be
\* applied before this one.
dependencies == {"0001_initial"}

\* The name of this migration (its file name) in the runner's bookkeeping.
migration == "0002_step"

\* CreateModel(name='Step', ...)
name == "Step"

\* Variant: the migration declares atomic = False.
atomic_off == FALSE

\* Migration.atomic is not overridden: the runner wraps the operations of the
\* migration in one transaction.
atomic == TRUE

id_field ==
    [type |-> "AutoField", auto_created |-> TRUE, primary_key |-> TRUE,
     serialize |-> FALSE, verbose_name |-> "ID"]

\* Variant: the title is declared null=True.
title_field_nullable == [type |-> "CharField", max_length |-> 250, null |-> TRUE]

title_field == [type |-> "CharField", max_length |-> 250]

description_field == [type |-> "TextField"]

\* Variant: the order is declared unique.
order_field_unique == [type |-> "IntegerField", default |-> 0, unique |-> TRUE]

order_field == [type |-> "IntegerField", default |-> 0]

\* Variants of the foreign key: deleting a Course cascades to its Steps; it
\* nulls their reference; the database does not constrain the reference.
course_field_cascade ==
    [type |-> "ForeignKey", on_delete |-> "CASCADE", to |-> "Course"]

course_field_set_null ==
    [type |-> "ForeignKey", on_delete |-> "SET_NULL", to |-> "Course",
     null |-> TRUE]

course_field_unconstrained ==
    [type |-> "ForeignKey", on_delete |-> "DO_NOTHING", to |-> "Course",
     db_constraint |-> FALSE]

course_field ==
    [type |-> "ForeignKey", on_delete |-> "PROTECT", to |-> "Course"]

\* CreateModel.fields, in declaration order.
fields ==
    << <<"id", id_field>>,
       <<"title", title_field>>,
       <<"description", description_field>>,
       <<"order", order_field>>,
       <<"course", course_field>> >>

\* ------------------------------------------- reading the declaration
\* A field option, or the framework's default when it is not declared.
Opt(f, k, d) == IF k \in DOMAIN f THEN f[k] ELSE d

FieldNames == { fields[i][1] : i \in DOMAIN fields }

FieldOf ==
    [n \in FieldNames |-> fields[CHOOSE i \in DOMAIN fields : fields[i][1] = n][2]]

Field(n) == FieldOf[n]

IsPrimaryKey(f) == Opt(f, "primary_key", FALSE)

Nullable(f) == Opt(f, "null", FALSE)

Unique(f) == Opt(f, "unique", FALSE) \/ IsPrimaryKey(f)

\* The fields a row stores besides its primary key.
DataFields == { n \in FieldNames : ~IsPrimaryKey(Field(n)) }

\* The foreign keys among the fields.
ForeignKeys == { n \in FieldNames : Field(n).type = "ForeignKey" }

\* The value a field takes when the row is saved without one: the declared
\* default, the empty string for a non-null text field, else NULL.
Default(f) ==
    IF "default" \in DOMAIN f THEN Some(f.default)
    ELSE IF f.type \in {"CharField", "TextField"} /\ ~Nullable(f) THEN Some("")
    ELSE None

\* The column a field becomes in the table.
Column(f) ==
    [db_type |->
        CASE f.type = "AutoField" -> "integer autoincrement"
          [] f.type = "CharField" -> "varchar"
          [] f.type = "TextField" -> "text"
          [] f.type = "IntegerField" -> "integer"
          [] f.type = "ForeignKey" -> "integer",
     max_length |-> IF "max_length" \in DOMAIN f THEN Some(f.max_length) ELSE None,
     null |-> Nullable(f),
     primary_key |-> IsPrimaryKey(f),
     references |->
        IF f.type = "ForeignKey" /\ Opt(f, "db_constraint", TRUE)
        THEN Some(f.to) ELSE None]

\* The table CreateModel creates: one column per field, and the index on the
\* foreign key column that is created after the table (deferred SQL).
Table(withIndex) ==
    [columns |-> [n \in FieldNames |-> Column(Field(n))], fk_index |-> withIndex]

StepTable == Table(TRUE)

\* ----------------------------------------------------------------- state
VARIABLES
    applied,        \* the migrations the runner has recorded as applied
    schema,         \* the tables of the database: table name -> its shape
    courses,        \* the primary keys of the Course rows
    steps,          \* the Step rows: primary key -> the row's field values
    nextId,         \* the next value of the Step table's id sequence
    executions,     \* successful runs of CreateModel since the last reversal
    stepDependent,  \* another schema object references the Step table
    lastOp,         \* the last operation requested, with the course it named
    lastResult      \* how the last operation ended

vars ==
    << applied, schema, courses, steps, nextId, executions, stepDependent,
       lastOp, lastResult >>

\* What the database holds: its schema, its rows and the runner's bookkeeping.
database == << applied, schema, courses, steps, nextId >>

CourseIds == 1..MaxCourses
StepIds == 1..MaxSteps
\* The order values application code supplies: the default and another.
Orders == {0, 1}

NoRows == << >>

\* The Course table, created by 0001_initial.
CourseTable ==
    [columns |-> [id |-> Column(id_field)], fk_index |-> FALSE]

\* A table of the same name that this migration did not create.
ForeignTable ==
    [columns |-> [legacy |-> Column(description_field)], fk_index |-> FALSE]

HasTable(t) == t \in DOMAIN schema

\* The Step table exists as the migration creates it.
StepTableReady == HasTable(name) /\ schema[name] = StepTable

\* An operation request: its kind, the course it names (NULL when none) and,
\* for a Step insert, the fields that were left to their declared default.
Op(o, c) == [op |-> o, course |-> c, defaulted |-> {}]

IntegrityErrors ==
    {"IntegrityError: NOT NULL", "IntegrityError: UNIQUE",
     "IntegrityError: FOREIGN KEY"}

\* How applying the migration can fail.
ApplyErrors == {"DependencyError", "TableExists", "DatabaseError"}

Errors ==
    ApplyErrors \cup IntegrityErrors \cup {"ProtectedError", "DependentObjects"}

Init ==
    /\ applied = {}
    /\ schema = << >>
    /\ courses = {}
    /\ steps = NoRows
    /\ nextId = 1
    /\ executions = 0
    /\ stepDependent = FALSE
    /\ lastOp = Op("none", None)
    /\ lastResult = "ok"

\* An operation that ends in `result` and changes nothing.
Unchanged(result) ==
    /\ lastResult' = result
    /\ UNCHANGED << applied, schema, courses, steps, nextId, executions,
                    stepDependent >>

\* ------------------------------------------------ the prerequisite state
\* The runner applies 0001_initial: the Course table exists afterwards.
ApplyInitial ==
    /\ lastOp' = Op("apply_initial", None)
    /\ IF "0001_initial" \in applied \/ HasTable("Course")
       THEN Unchanged("noop")
       ELSE /\ applied' = applied \cup {"0001_initial"}
            /\ schema' = ("Course" :> CourseTable) @@ schema
            /\ lastResult' = "ok"
            /\ UNCHANGED << courses, steps, nextId, executions, stepDependent >>

\* The runner reverses 0001_initial; it does so only when no applied
\* migration names it as a dependency.
UnapplyInitial ==
    /\ lastOp' = Op("unapply_initial", None)
    /\ "0001_initial" \in applied
    /\ ~(migration \in applied /\ "0001_initial" \in dependencies)
    /\ applied' = applied \ {"0001_initial"}
    /\ schema' = [t \in DOMAIN schema \ {"Course"} |-> schema[t]]
    /\ courses' = {}
    /\ lastResult' = "ok"
    /\ UNCHANGED << steps, nextId, executions, stepDependent >>

\* Application code inserts a Course row.
InsertCourse(c) ==
    /\ HasTable("Course")
    /\ c \notin courses
    /\ lastOp' = Op("insert_course", Some(c))
    /\ courses' = courses \cup {c}
    /\ lastResult' = "ok"
    /\ UNCHANGED << applied, schema, steps, nextId, executions, stepDependent >>

\* ---------------------------------------------------- the migration
\* The statements CreateModel runs against the database: CREATE TABLE, then
\* the deferred index on the foreign key.  `reject` is the statement the
\* database refuses, if any.  A failure inside an atomic migration rolls the
\* whole migration back; outside one, the statements already run stay.
database_forwards(reject) ==
    IF HasTable(name)
    THEN Unchanged("TableExists")
    ELSE IF reject = "create_table"
    THEN Unchanged("DatabaseError")
    ELSE IF reject = "deferred_sql"
    THEN /\ lastResult' = "DatabaseError"
         /\ schema' = IF atomic THEN schema
                      ELSE (name :> Table(FALSE)) @@ schema
         /\ UNCHANGED << applied, courses, steps, nextId, executions,
                         stepDependent >>
    ELSE /\ schema' = (name :> StepTable) @@ schema
         /\ applied' = applied \cup {migration}
         /\ steps' = NoRows
         /\ nextId' = 1
         /\ executions' = executions + 1
         /\ lastResult' = "ok"
         /\ UNCHANGED << courses, stepDependent >>

\* Variant: the runner does not consult its record of applied migrations.
ApplyMigration_unrecorded(reject) ==
    /\ lastOp' = Op("apply", None)
    /\ IF ~(dependencies \subseteq applied)
       THEN Unchanged("DependencyError")
       ELSE database_forwards(reject)

\* The runner is asked to apply this migration.
ApplyMigration(reject) ==
    /\ lastOp' = Op("apply", None)
    /\ IF ~(dependencies \subseteq applied)
       THEN Unchanged("DependencyError")
       ELSE IF migration \in applied
       THEN Unchanged("noop")
       ELSE database_forwards(reject)

\* Variant: the reversal drops the rows of the referenced table too.
UnapplyMigration_cascade ==
    /\ lastOp' = Op("unapply", None)
    /\ IF migration \notin applied
       THEN Unchanged("noop")
       ELSE IF stepDependent
       THEN Unchanged("DependentObjects")
       ELSE /\ schema' = [t \in DOMAIN schema \ {name} |-> schema[t]]
            /\ applied' = applied \ {migration}
            /\ steps' = NoRows
            /\ courses' = {}
            /\ nextId' = 1
            /\ executions' = 0
            /\ lastResult' = "ok"
            /\ UNCHANGED stepDependent

\* The runner is asked to reverse this migration: the reverse of CreateModel
\* drops the table it created, and nothing else.
UnapplyMigration ==
    /\ lastOp' = Op("unapply", None)
    /\ IF migration \notin applied
       THEN Unchanged("noop")
       ELSE IF stepDependent
       THEN Unchanged("DependentObjects")
       ELSE /\ schema' = [t \in DOMAIN schema \ {name} |-> schema[t]]
            /\ applied' = applied \ {migration}
            /\ steps' = NoRows
            /\ nextId' = 1
            /\ executions' = 0
            /\ lastResult' = "ok"
            /\ UNCHANGED << courses, stepDependent >>

\* The operator creates, or finds, a table of the same name by hand.
CreateConflictingTable ==
    /\ ~HasTable(name)
    /\ lastOp' = Op("create_conflict", None)
    /\ schema' = (name :> ForeignTable) @@ schema
    /\ lastResult' = "ok"
    /\ UNCHANGED << applied, courses, steps, nextId, executions, stepDependent >>

\* The operator drops a table of that name that no applied migration owns.
DropConflictingTable ==
    /\ HasTable(name)
    /\ migration \notin applied
    /\ lastOp' = Op("drop_conflict", None)
    /\ schema' = [t \in DOMAIN schema \ {name} |-> schema[t]]
    /\ lastResult' = "ok"
    /\ UNCHANGED << applied, courses, steps, nextId, executions, stepDependent >>

\* A later schema change makes another object reference the Step table, or
\* removes that object again.
AddDependent ==
    /\ StepTableReady
    /\ migration \in applied
    /\ ~stepDependent
    /\ lastOp' = Op("add_dependent", None)
    /\ stepDependent' = TRUE
    /\ lastResult' = "ok"
    /\ UNCHANGED << applied, schema, courses, steps, nextId, executions >>

DropDependent ==
    /\ stepDependent
    /\ lastOp' = Op("drop_dependent", None)
    /\ stepDependent' = FALSE
    /\ lastResult' = "ok"
    /\ UNCHANGED << applied, schema, courses, steps, nextId, executions >>

\* ------------------------------------------------------- the Step rows
\* The constraints of the Step table on a row: NOT NULL on every field not
\* declared null, and the foreign key's reference to an existing Course row.
NotNullFields == { n \in DataFields : ~Nullable(Field(n)) }

ConstrainedKeys ==
    { n \in ForeignKeys : Opt(Field(n), "db_constraint", TRUE) }

UniqueFields == { n \in DataFields : Unique(Field(n)) }

NotNullOk(row) == \A n \in NotNullFields : ~IsNull(row[n])

ForeignKeyOk(row, cs) ==
    \A n \in ConstrainedKeys : ~IsNull(row[n]) => row[n][1] \in cs

\* The uniqueness constraints of the table on a set of rows.
UniqueOk(rows) ==
    \A n \in UniqueFields :
        \A s, t \in DOMAIN rows :
            (s # t /\ ~IsNull(rows[s][n])) => rows[s][n] # rows[t][n]

\* The constraint the database reports as violated by `rows`, given the
\* Course rows cs: NOT NULL and UNIQUE are checked by the statement, the
\* foreign key when it commits.  "ok" when none is violated.
Violation(rows, cs) ==
    IF \E s \in DOMAIN rows : ~NotNullOk(rows[s])
    THEN "IntegrityError: NOT NULL"
    ELSE IF ~UniqueOk(rows)
    THEN "IntegrityError: UNIQUE"
    ELSE IF \E s \in DOMAIN rows : ~ForeignKeyOk(rows[s], cs)
    THEN "IntegrityError: FOREIGN KEY"
    ELSE "ok"

\* The values application code may supply for the fields of a Step.  The text
\* of a title or description is not looked at by any constraint but NOT NULL:
\* one text stands for all of them.
RowInputs ==
    [title : {None, Some("")},
     description : {None, Some("")},
     order : {None} \cup { Some(o) : o \in Orders },
     course : {None} \cup { Some(c) : c \in CourseIds }]

\* The values that may be supplied for field n.
InputValues == [n \in DataFields |-> { v[n] : v \in RowInputs }]

\* The inputs of an insert that supplies the fields in `given`; a field not
\* supplied carries no value.
SuppliedInputs ==
    [given \in SUBSET DataFields |->
        { v \in RowInputs : \A n \in DataFields \ given : IsNull(v[n]) }]

\* The row saved from the supplied values: a field not supplied takes its
\* default.
DefaultRow == [n \in DataFields |-> Default(Field(n))]

NewRow(given, vals) ==
    [n \in DataFields |-> IF n \in given THEN vals[n] ELSE DefaultRow[n]]

\* The fields with a declared default that an insert leaves to it.
DeclaredDefaults == { n \in DataFields : "default" \in DOMAIN Field(n) }

Defaulted(given) == DeclaredDefaults \ given

\* Application code inserts a Step, supplying the fields in `given`.
InsertStep(given, vals) ==
    /\ StepTableReady
    /\ nextId <= MaxSteps
    /\ LET row == NewRow(given, vals)
           rows == (nextId :> row) @@ steps
       IN /\ lastOp' = [op |-> "insert_step", course |-> row.course,
                        defaulted |-> Defaulted(given)]
          /\ IF Violation(rows, courses) = "ok"
             THEN /\ steps' = rows
                  /\ nextId' = nextId + 1
                  /\ lastResult' = "ok"
                  /\ UNCHANGED << applied, schema, courses, executions,
                                  stepDependent >>
             ELSE Unchanged(Violation(rows, courses))

\* Application code sets field n of Step s to v.
UpdateStep(s, n, v) ==
    /\ StepTableReady
    /\ s \in DOMAIN steps
    /\ LET rows == [steps EXCEPT ![s][n] = v]
       IN /\ lastOp' = Op("update_step", rows[s].course)
          /\ IF Violation(rows, courses) = "ok"
             THEN /\ steps' = rows
                  /\ lastResult' = "ok"
                  /\ UNCHANGED << applied, schema, courses, nextId, executions,
                                  stepDependent >>
             ELSE Unchanged(Violation(rows, courses))

\* Application code deletes Step s.
DeleteStep(s) ==
    /\ StepTableReady
    /\ s \in DOMAIN steps
    /\ lastOp' = Op("delete_step", steps[s].course)
    /\ steps' = [t \in DOMAIN steps \ {s} |-> steps[t]]
    /\ lastResult' = "ok"
    /\ UNCHANGED << applied, schema, courses, nextId, executions, stepDependent >>

\* ----------------------------------------------------- deleting a Course
\* Variant: every Step row counts as a dependent of every Course.
Dependents_any(n, c) == DOMAIN steps

\* The Step rows that reference Course c through foreign key n.
Dependents(n, c) == { s \in DOMAIN steps : steps[s][n] = Some(c) }

\* The foreign keys to Course declared with on_delete rule r.
KeysWith(r) ==
    { n \in ForeignKeys : Field(n).to = "Course" /\ Field(n).on_delete = r }

\* Application code deletes Course c.  The on_delete rule of each foreign key
\* decides what happens to the rows that reference c: PROTECT refuses the
\* delete, CASCADE deletes them, SET_NULL nulls the reference, DO_NOTHING
\* leaves them to the constraints of the database.
DeleteCourse(c) ==
    /\ HasTable("Course")
    /\ c \in courses
    /\ lastOp' = Op("delete_course", Some(c))
    /\ IF \E n \in KeysWith("PROTECT") : Dependents(n, c) # {}
       THEN Unchanged("ProtectedError")
       ELSE LET cascaded == UNION { Dependents(n, c) : n \in KeysWith("CASCADE") }
                rows == [s \in DOMAIN steps \ cascaded |->
                           [n \in DataFields |->
                              IF n \in KeysWith("SET_NULL") /\ steps[s][n] = Some(c)
                              THEN None ELSE steps[s][n]]]
            IN IF Violation(rows, courses \ {c}) = "ok"
               THEN /\ steps' = rows
                    /\ courses' = courses \ {c}
                    /\ lastResult' = "ok"
                    /\ UNCHANGED << applied, schema, nextId, executions,
                                    stepDependent >>
               ELSE Unchanged(Violation(rows, courses \ {c}))

\* ------------------------------------------------------- specification
Rejections == {"none", "create_table", "deferred_sql"}

Next ==
    \/ ApplyInitial
    \/ UnapplyInitial
    \/ \E c \in CourseIds : InsertCourse(c)
    \/ \E r \in Rejections : ApplyMigration(r)
    \/ UnapplyMigration
    \/ CreateConflictingTable
    \/ DropConflictingTable
    \/ AddDependent
    \/ DropDependent
    \/ \E g \in SUBSET DataFields : \E v \in SuppliedInputs[g] : InsertStep(g, v)
    \/ \E s \in StepIds, n \in DataFields :
          \E v \in InputValues[n] : UpdateStep(s, n, v)
    \/ \E s \in StepIds : DeleteStep(s)
    \/ \E c \in CourseIds : DeleteCourse(c)

Spec == Init /\ [][Next]_vars

\* ---------------------------------------------------------------- claims
\* The Step rows that reference Course c.
Referencing(c) == { s \in DOMAIN steps : steps[s].course = Some(c) }

\* C1: while the Step table exists, deleting a Course that at least one Step
\* references fails with a protect violation and leaves the Course rows and
\* the Step rows as they were.
C1_ProtectedDeleteRejected ==
    [][\A c \in CourseIds :
          (/\ StepTableReady
           /\ Referencing(c) # {}
           /\ lastOp' = Op("delete_course", Some(c)))
          => (/\ lastResult' = "ProtectedError"
              /\ courses' = courses
              /\ steps' = steps)]_vars

C1_Witness ==
    /\ lastOp.op = "delete_course"
    /\ lastResult = "ProtectedError"
    /\ lastOp.course[1] \in courses
    /\ Referencing(lastOp.course[1]) # {}

\* C2: every Step row has a non-null course that is the key of an existing
\* Course row, in every reachable state.
C2_ReferentialIntegrity ==
    \A s \in DOMAIN steps :
        /\ ~IsNull(steps[s].course)
        /\ steps[s].course[1] \in courses

C2_Witness ==
    /\ Cardinality(DOMAIN steps) = MaxSteps
    /\ Cardinality({ steps[s].course : s \in DOMAIN steps }) > 1
    /\ lastOp.op = "update_step"
    /\ lastResult \in IntegrityErrors

\* C3: inserting a Step whose course is not the key of an existing Course row
\* fails with an integrity error and leaves the Step rows as they were.
C3_DanglingInsertRejected ==
    [][(/\ lastOp'.op = "insert_step"
        /\ \/ IsNull(lastOp'.course)
           \/ lastOp'.course[1] \notin courses)
       => (/\ lastResult' \in IntegrityErrors
           /\ steps' = steps
           /\ nextId' = nextId)]_vars

C3_Witness ==
    /\ lastOp.op = "insert_step"
    /\ ~IsNull(lastOp.course)
    /\ lastOp.course[1] \notin courses
    /\ lastResult = "IntegrityError: FOREIGN KEY"

\* C4: deleting a Course that no Step references succeeds, whatever Steps
\* reference other Courses: the Course row is removed, the Step rows stay.
C4_UnreferencedDeleteSucceeds ==
    [][\A c \in CourseIds :
          (/\ Referencing(c) = {}
           /\ lastOp' = Op("delete_course", Some(c)))
          => (/\ lastResult' = "ok"
              /\ courses' = courses \ {c}
              /\ steps' = steps)]_vars

C4_Witness ==
    /\ lastOp.op = "delete_course"
    /\ lastResult = "ok"
    /\ lastOp.course[1] \notin courses
    /\ DOMAIN steps # {}

\* C5: the Step table is created only when 0001_initial is applied; applying
\* the migration without it fails with a dependency error and changes
\* nothing in the database.
C5_PrerequisiteFirst ==
    /\ []((migration \in applied \/ StepTableReady)
            => ("0001_initial" \in applied /\ HasTable("Course")))
    /\ [][(lastOp'.op = "apply" /\ "0001_initial" \notin applied)
            => (/\ lastResult' = "DependencyError"
                /\ UNCHANGED database)]_vars

C5_Witness ==
    /\ lastOp.op = "apply"
    /\ lastResult = "DependencyError"
    /\ ~HasTable("Course")
    /\ ~HasTable(name)

\* The five columns the Step table is declared to have.
DeclaredColumns ==
    [id |-> [db_type |-> "integer autoincrement", max_length |-> None,
             null |-> FALSE, primary_key |-> TRUE, references |-> None],
     title |-> [db_type |-> "varchar", max_length |-> Some(250),
                null |-> FALSE, primary_key |-> FALSE, references |-> None],
     description |-> [db_type |-> "text", max_length |-> None,
                      null |-> FALSE, primary_key |-> FALSE, references |-> None],
     order |-> [db_type |-> "integer", max_length |-> None,
                null |-> FALSE, primary_key |-> FALSE, references |-> None],
     course |-> [db_type |-> "integer", max_length |-> None,
                 null |-> FALSE, primary_key |-> FALSE,
                 references |-> Some("Course")]]

\* C6: applying the migration where the Course table exists and no Step table
\* does succeeds unless the database refuses a statement, and the table of an
\* applied migration has exactly the five declared columns.
C6_DeclaredShape ==
    /\ [](migration \in applied
            => (HasTable(name) /\ schema[name].columns = DeclaredColumns))
    /\ [][(/\ lastOp'.op = "apply"
           /\ "0001_initial" \in applied
           /\ HasTable("Course")
           /\ ~HasTable(name)
           /\ migration \notin applied)
          => \/ lastResult' = "DatabaseError"
             \/ /\ lastResult' = "ok"
                /\ migration \in applied'
                /\ schema'[name].columns = DeclaredColumns]_vars

C6_Witness ==
    /\ lastOp.op = "apply"
    /\ lastResult = "ok"
    /\ HasTable(name)
    /\ DOMAIN schema[name].columns = {"id", "title", "description", "order", "course"}

\* C7: between two reversals CreateModel runs successfully at most once, and
\* asking the runner to apply an applied migration runs nothing and leaves
\* schema, rows and bookkeeping unchanged.
C7_AppliedOnce ==
    /\ [](executions <= 1)
    /\ [][(lastOp'.op = "apply" /\ migration \in applied)
            => (/\ lastResult' = "noop"
                /\ executions' = executions
                /\ UNCHANGED database)]_vars

C7_Witness ==
    /\ lastOp.op = "apply"
    /\ lastResult = "noop"
    /\ executions = 1
    /\ DOMAIN steps # {}

\* C8: a failed application leaves the database as it was: no Step table of
\* the migration exists without the record that it is applied, nor the record
\* without the table, and the failure is one of the three kinds.
C8_FailedApplyAtomic ==
    /\ []((migration \in applied) <=> StepTableReady)
    /\ [](HasTable(name) => schema[name] \in {StepTable, ForeignTable})
    /\ [][(lastOp'.op = "apply" /\ lastResult' \notin {"ok", "noop"})
            => (/\ lastResult' \in ApplyErrors
                /\ executions' = executions
                /\ UNCHANGED database)]_vars

C8_Witness ==
    /\ lastOp.op = "apply"
    /\ lastResult = "DatabaseError"
    /\ "0001_initial" \in applied
    /\ ~HasTable(name)
    /\ migration \notin applied

\* C9: reversing the migration succeeds only if nothing else depends on the
\* Step table, and it leaves the Course table and the Course rows unchanged.
C9_ReverseLeavesCourses ==
    [][(lastOp'.op = "unapply" /\ migration \in applied)
         => (/\ lastResult' = "ok" => ~stepDependent
             /\ stepDependent => (lastResult' = "DependentObjects"
                                    /\ UNCHANGED database)
             /\ lastResult' = "ok" => ~HasTable(name)'
             /\ courses' = courses
             /\ HasTable("Course")'
             /\ schema'["Course"] = schema["Course"])]_vars

C9_Witness ==
    /\ lastOp.op = "unapply"
    /\ lastResult = "ok"
    /\ courses # {}
    /\ ~HasTable(name)
    /\ HasTable("Course")

\* C10: a Step inserted without an order is never refused on account of its
\* order and is stored with order 0, whatever orders the other Steps hold.
C10_OrderDefault ==
    [][(lastOp'.op = "insert_step" /\ "order" \in lastOp'.defaulted)
         => \/ lastResult' \in {"IntegrityError: NOT NULL",
                                "IntegrityError: FOREIGN KEY"}
            \/ /\ lastResult' = "ok"
               /\ steps'[nextId].order = Some(0)
               /\ \A s \in DOMAIN steps : steps'[s] = steps[s]]_vars

C10_Witness ==
    /\ lastOp.op = "insert_step"
    /\ "order" \in lastOp.defaulted
    /\ lastResult = "ok"
    /\ \E s, t \in DOMAIN steps :
          /\ s # t
          /\ steps[s].course = steps[t].course
          /\ steps[s].order = Some(0)
          /\ steps[t].order = Some(0)

====
